---- MODULE Spec2Model ----
(***************************************************************************)
(* A model of anki.py: one run of main(), from the command line to the     *)
(* process exit.  The environment of a run is the command line (argv), the *)
(* file found at the input path (inputFile) and the behaviour of the       *)
(* medium the archive is written to (disk).  The run is a straight line of *)
(* steps: read the arguments, the loader's checks in their textual order,  *)
(* create_anki_deck, and the archive write inside main's try block.        *)
(***************************************************************************)
EXTENDS Integers, Sequences, FiniteSets, TLC

VARIABLES
    argv,         \* sys.argv
    inputFile,    \* the file system entry at the input path
    disk,         \* how the output medium answers the archive write
    pc,           \* the position of the run
    input_file,   \* main's local
    output_file,  \* main's local
    content,      \* load_tuples_from_file's local: the text read
    data,         \* load_tuples_from_file's local: the parsed value
    idx,          \* the loop index of the validation loop
    tuples_list,  \* main's local: what the loader returned
    deck,         \* main's local: what create_anki_deck returned
    outfs,        \* the files the run has created, by path
    stdout,       \* the lines written to standard output
    stderr,       \* the lines written to standard error
    exitCode,     \* the process exit code, Running until the process ends
    failure,      \* which exit site ended the run
    trace         \* the steps the run has executed, in order

vars == <<argv, inputFile, disk, pc, input_file, output_file, content, data,
          idx, tuples_list, deck, outfs, stdout, stderr, exitCode, failure,
          trace>>

----------------------------------------------------------------------------
(* Bounds and program constants *)

MaxEntries == 3

Arity == 5

DeckId == 2059400110

ModelId == 1607392319

Running == -1

----------------------------------------------------------------------------
(* Python values, as far as the program looks at them *)

FieldNames == <<"Hanzi", "Pinyin", "English", "German", "Sentence">>

Texts(t) ==
    IF t = 1 THEN <<"h1", "p1", "e1", "g1", "s1", "x1">>
             ELSE <<"h2", "p2", "e2", "g2", "s2", "x2">>

Group(k, n, t) == [kind |-> k, items |-> SubSeq(Texts(t), 1, n)]

\* The elements an input list may hold: two well-formed 5-tuples, and one
\* element of each malformed shape (a 4-tuple, a 6-tuple, a 5-element list).
EntryValues ==
    { Group("tuple", Arity, 1), Group("tuple", Arity, 2),
      Group("tuple", Arity - 1, 1), Group("tuple", Arity + 1, 1),
      Group("list", Arity, 1) }

EntrySeqs == UNION { [1..n -> EntryValues] : n \in 0..MaxEntries }

NoneValue == [kind |-> "None", items |-> <<>>]

\* The values a literal may evaluate to: a list or a tuple of elements, or a
\* value that is no sequence at all (a dict, a number).
TopValues ==
    { [kind |-> k, items |-> s] : k \in {"list", "tuple"}, s \in EntrySeqs }
    \cup { [kind |-> "dict", items |-> <<>>], [kind |-> "int", items |-> <<>>] }

\* A text file is either a literal expression (with the value it denotes) or
\* text that is no literal, such as "[(".
Contents ==
    { [literal |-> TRUE, value |-> v] : v \in TopValues }
    \cup { [literal |-> FALSE, value |-> NoneValue] }

NoContent == [literal |-> FALSE, value |-> NoneValue]

\* What the input path resolves to: nothing (or a directory), a file that
\* cannot be opened, a file whose bytes are not UTF-8, or a text file.
InputFiles ==
    { [status |-> s, content |-> NoContent] :
          s \in {"absent", "unreadable", "undecodable"} }
    \cup { [status |-> "text", content |-> c] : c \in Contents }

Argvs ==
    { <<"anki.py">>, <<"anki.py", "vocab.txt">>,
      <<"anki.py", "vocab.txt", "out.apkg">> }

OutPaths == {"textlekt2a.apkg", "deck.apkg", "out.apkg"}

\* The archive write succeeds, fails before the output file exists (the path
\* cannot be created, the library rejects a value) or fails after the output
\* file has been opened (the medium fills up).
DiskKinds == {"ok", "fail_before_create", "fail_after_create"}

NoFile == [state |-> "none", notes |-> <<>>]

NoDeck == [deck_id |-> 0, name |-> "", notes |-> <<>>]

----------------------------------------------------------------------------
(* The program's pure parts *)

\* The existence test with its "not" lost.
isfile_Negated(f) == f.status = "absent"

isfile(f) == f.status # "absent"

literal_eval(c) ==
    IF c.literal THEN [ok |-> TRUE, value |-> c.value]
                 ELSE [ok |-> FALSE, value |-> NoneValue]

\* A loader that takes any Python sequence for a list.
IsList_AnySequence(v) == v.kind \in {"list", "tuple"}

IsList(v) == v.kind = "list"

IsFiveTuple(e) == e.kind = "tuple" /\ Len(e.items) = Arity

print(out, msg) == Append(out, msg)

MsgNotFound(f) ==
    [fmt |-> "Error: File '{filename}' does not exist.", args |-> <<f>>]

\* The parse handler printing the message copied from the check above it.
MsgParse_Copied(f) ==
    [fmt |-> "Error: File '{filename}' does not exist.", args |-> <<f>>]

MsgParse(f) ==
    [fmt |-> "Error parsing '{filename}': {e}", args |-> <<f>>]

MsgNotList(f) ==
    [fmt |-> "Error: Expected a list of tuples in '{filename}'.",
     args |-> <<f>>]

\* The index counted from 1, as enumerate(data, 1) would.
MsgEntry_OneBased(i, f, e) ==
    [fmt |-> "Error: Entry {idx} in '{filename}' is not a 5-tuple: {entry}",
     args |-> <<i + 1, f, e>>]

MsgEntry(i, f, e) ==
    [fmt |-> "Error: Entry {idx} in '{filename}' is not a 5-tuple: {entry}",
     args |-> <<i, f, e>>]

MsgSuccess(f) ==
    [fmt |-> "Anki deck successfully created: {output_file}", args |-> <<f>>]

MsgWrite(f) ==
    [fmt |-> "Error writing Anki deck to '{output_file}': {e}",
     args |-> <<f>>]

Traceback(exc) ==
    [fmt |-> "Traceback (most recent call last): ...", args |-> <<exc>>]

DefaultInput == "input.txt"

DefaultOutput == "textlekt2a.apkg"

\* The note with the English and German values in each other's slot.
Note_Swapped(entry) ==
    [model |-> ModelId,
     fields |-> <<entry.items[1], entry.items[2], entry.items[4],
                  entry.items[3], entry.items[5]>>]

Note(entry) ==
    [model |-> ModelId,
     fields |-> <<entry.items[1], entry.items[2], entry.items[3],
                  entry.items[4], entry.items[5]>>]

RECURSIVE AddNotes(_, _)
AddNotes(notes, entries) ==
    IF entries = <<>> THEN notes
    ELSE AddNotes(Append(notes, Note(Head(entries))), Tail(entries))

create_anki_deck(tl) ==
    [deck_id |-> DeckId, name |-> "Chinese Vocabulary",
     notes |-> AddNotes(<<>>, tl.items)]

----------------------------------------------------------------------------
(* The run *)

Init ==
    /\ argv \in Argvs
    /\ inputFile \in InputFiles
    /\ disk \in DiskKinds
    /\ pc = "main"
    /\ input_file = ""
    /\ output_file = ""
    /\ content = NoContent
    /\ data = NoneValue
    /\ idx = 0
    /\ tuples_list = NoneValue
    /\ deck = NoDeck
    /\ outfs = [p \in OutPaths |-> NoFile]
    /\ stdout = <<>>
    /\ stderr = <<>>
    /\ exitCode = Running
    /\ failure = "none"
    /\ trace = <<>>

\* sys.exit(1) after a diagnostic printed by the program itself.
ExitWith(msg, kind) ==
    /\ stdout' = print(stdout, msg)
    /\ exitCode' = 1
    /\ failure' = kind
    /\ pc' = "exited"

\* An exception nothing catches: the interpreter writes the traceback to
\* standard error and ends the process with code 1.
Uncaught(exc) ==
    /\ stderr' = Append(stderr, Traceback(exc))
    /\ exitCode' = 1
    /\ failure' = "uncaught"
    /\ pc' = "exited"

ReadArgs ==
    /\ pc = "main"
    /\ input_file' = IF Len(argv) >= 2 THEN argv[2] ELSE DefaultInput
    /\ output_file' = IF Len(argv) >= 3 THEN argv[3] ELSE DefaultOutput
    /\ pc' = "isfile"
    /\ trace' = Append(trace, "args")
    /\ UNCHANGED <<argv, inputFile, disk, content, data, idx, tuples_list,
                   deck, outfs, stdout, stderr, exitCode, failure>>

CheckIsFile ==
    /\ pc = "isfile"
    /\ trace' = Append(trace, "isfile")
    /\ IF ~isfile(inputFile)
       THEN /\ ExitWith(MsgNotFound(input_file), "file_not_found")
            /\ UNCHANGED stderr
       ELSE /\ pc' = "read"
            /\ UNCHANGED <<stdout, stderr, exitCode, failure>>
    /\ UNCHANGED <<argv, inputFile, disk, input_file, output_file, content,
                   data, idx, tuples_list, deck, outfs>>

ReadFile ==
    /\ pc = "read"
    /\ trace' = Append(trace, "read")
    /\ IF inputFile.status = "text"
       THEN /\ content' = inputFile.content
            /\ pc' = "parse"
            /\ UNCHANGED <<stdout, stderr, exitCode, failure>>
       ELSE /\ Uncaught(IF inputFile.status = "unreadable"
                        THEN "PermissionError" ELSE "UnicodeDecodeError")
            /\ UNCHANGED <<content, stdout>>
    /\ UNCHANGED <<argv, inputFile, disk, input_file, output_file, data, idx,
                   tuples_list, deck, outfs>>

Parse ==
    /\ pc = "parse"
    /\ trace' = Append(trace, "parse")
    /\ LET r == literal_eval(content) IN
       IF r.ok
       THEN /\ data' = r.value
            /\ pc' = "toplevel"
            /\ UNCHANGED <<stdout, stderr, exitCode, failure>>
       ELSE /\ ExitWith(MsgParse(input_file), "parse_error")
            /\ UNCHANGED <<data, stderr>>
    /\ UNCHANGED <<argv, inputFile, disk, input_file, output_file, content,
                   idx, tuples_list, deck, outfs>>

\* The top-level check with its sys.exit(1) lost: it prints and goes on.
CheckTopLevel_NoExit ==
    /\ pc = "toplevel"
    /\ trace' = Append(trace, "toplevel")
    /\ stdout' = IF ~IsList(data) THEN print(stdout, MsgNotList(input_file))
                                  ELSE stdout
    /\ pc' = "validate"
    /\ idx' = 0
    /\ UNCHANGED <<argv, inputFile, disk, input_file, output_file, content,
                   data, tuples_list, deck, outfs, stderr, exitCode, failure>>

CheckTopLevel ==
    /\ pc = "toplevel"
    /\ trace' = Append(trace, "toplevel")
    /\ IF ~IsList(data)
       THEN /\ ExitWith(MsgNotList(input_file), "schema_error")
            /\ UNCHANGED <<stderr, idx>>
       ELSE /\ pc' = "validate"
            /\ idx' = 0
            /\ UNCHANGED <<stdout, stderr, exitCode, failure>>
    /\ UNCHANGED <<argv, inputFile, disk, input_file, output_file, content,
                   data, tuples_list, deck, outfs>>

\* The validation loop reporting a malformed element and leaving it out
\* instead of ending the run.
ValidateEntry_Skip ==
    /\ pc = "validate"
    /\ IF idx < Len(data.items)
       THEN /\ trace' = Append(trace, "entry")
            /\ idx' = idx + 1
            /\ stdout' = IF ~IsFiveTuple(data.items[idx + 1])
                          THEN print(stdout, MsgEntry(idx, input_file,
                                                      data.items[idx + 1]))
                          ELSE stdout
            /\ UNCHANGED <<pc, tuples_list>>
       ELSE /\ trace' = Append(trace, "return")
            /\ tuples_list' =
                   [data EXCEPT !.items = SelectSeq(data.items, IsFiveTuple)]
            /\ pc' = "build"
            /\ UNCHANGED <<idx, stdout>>
    /\ UNCHANGED <<argv, inputFile, disk, input_file, output_file, content,
                   data, deck, outfs, stderr, exitCode, failure>>

\* One turn of "for idx, entry in enumerate(data)"; the loop's end returns.
ValidateEntry ==
    /\ pc = "validate"
    /\ IF idx < Len(data.items)
       THEN /\ trace' = Append(trace, "entry")
            /\ IF ~IsFiveTuple(data.items[idx + 1])
               THEN /\ ExitWith(MsgEntry(idx, input_file, data.items[idx + 1]),
                                "schema_error")
                    /\ UNCHANGED <<stderr, idx>>
               ELSE /\ idx' = idx + 1
                    /\ UNCHANGED <<pc, stdout, stderr, exitCode, failure>>
            /\ UNCHANGED tuples_list
       ELSE /\ trace' = Append(trace, "return")
            /\ tuples_list' = data
            /\ pc' = "build"
            /\ UNCHANGED <<idx, stdout, stderr, exitCode, failure>>
    /\ UNCHANGED <<argv, inputFile, disk, input_file, output_file, content,
                   data, deck, outfs>>

Build ==
    /\ pc = "build"
    /\ trace' = Append(trace, "build")
    /\ deck' = create_anki_deck(tuples_list)
    /\ pc' = "write"
    /\ UNCHANGED <<argv, inputFile, disk, input_file, output_file, content,
                   data, idx, tuples_list, outfs, stdout, stderr, exitCode,
                   failure>>

\* main's try block: the archive write, the confirmation line, and the
\* handler of any exception of the write.  The handler removes nothing.
Write ==
    /\ pc = "write"
    /\ trace' = Append(trace, "write")
    /\ IF disk = "ok"
       THEN /\ outfs' = [outfs EXCEPT ![output_file] =
                            [state |-> "complete", notes |-> deck.notes]]
            /\ stdout' = print(stdout, MsgSuccess(output_file))
            /\ exitCode' = 0
            /\ pc' = "exited"
            /\ UNCHANGED <<stderr, failure>>
       ELSE /\ outfs' = IF disk = "fail_after_create"
                        THEN [outfs EXCEPT ![output_file] =
                                 [state |-> "partial", notes |-> <<>>]]
                        ELSE outfs
            /\ ExitWith(MsgWrite(output_file), "write_error")
            /\ UNCHANGED stderr
    /\ UNCHANGED <<argv, inputFile, disk, input_file, output_file, content,
                   data, idx, tuples_list, deck>>

Next ==
    \/ ReadArgs
    \/ CheckIsFile
    \/ ReadFile
    \/ Parse
    \/ CheckTopLevel
    \/ ValidateEntry
    \/ Build
    \/ Write

Spec == Init /\ [][Next]_vars

\* The run is one sequential process: a step that can be taken is taken.
FairSpec == Spec /\ WF_vars(Next)

----------------------------------------------------------------------------
(* What the claims speak of, stated on the environment of the run and on   *)
(* what the run left behind, independently of the loader's own tests.      *)

Parsed == inputFile.status = "text" /\ inputFile.content.literal

Value == inputFile.content.value

WellFormed(e) == e.kind = "tuple" /\ Len(e.items) = 5

AllWellFormed(v) == \A i \in 1..Len(v.items) : WellFormed(v.items[i])

HasMalformed(v) == \E i \in 1..Len(v.items) : ~WellFormed(v.items[i])

\* The position (from 1) of the first malformed element.
FirstMalformed(v) ==
    CHOOSE i \in 1..Len(v.items) :
        /\ ~WellFormed(v.items[i])
        /\ \A j \in 1..(i - 1) : WellFormed(v.items[j])

ValidList == Parsed /\ Value.kind = "list" /\ AllWellFormed(Value)

CreatedFiles == { p \in OutPaths : outfs[p].state # "none" }

Exited == pc = "exited"

Did(step) == \E i \in 1..Len(trace) : trace[i] = step

LastLine(out) == out[Len(out)]

FullSuccess ==
    /\ exitCode = 0
    /\ CreatedFiles = {output_file}
    /\ outfs[output_file].state = "complete"

----------------------------------------------------------------------------
(* C1 *)

\* C1 as stated, "sequence" read as the one kind the loader takes, a list:
\* every input that parses to a list of well-formed 5-tuples ends with exit
\* code 0 and exactly one output file.
C1_ValidInputSucceeds ==
    (Exited /\ ValidList) => (exitCode = 0 /\ Cardinality(CreatedFiles) = 1)

\* C1 as amended: when the input parses to a list of well-formed 5-tuples and
\* the archive write does not fail, the run terminates, with exit code 0 and
\* exactly one output file, the complete archive at the output path.
C1_ValidListSucceeds ==
    (ValidList /\ disk = "ok") ~> (Exited /\ FullSuccess)

C1_Witness ==
    /\ Exited /\ ValidList /\ disk = "ok"
    /\ Len(Value.items) >= 2
    /\ FullSuccess

----------------------------------------------------------------------------
(* C2 *)

\* C2: a terminated run either succeeded in full (exit code 0, one complete
\* archive at the output path) or exited with code 1 having created no file.
C2_AllOrNothing ==
    Exited => \/ FullSuccess
              \/ (exitCode = 1 /\ CreatedFiles = {})

----------------------------------------------------------------------------
(* C3 *)

RejectedAtTopLevel == Exited /\ LastLine(trace) = "toplevel"

\* C3 as stated: a top-level value that is no sequence ends the run with
\* exit code 1 and no output file, and a sequence of either kind (list or
\* tuple) is not rejected by the top-level check.
C3_SequenceAccepted ==
    /\ (Exited /\ Parsed /\ Value.kind \notin {"list", "tuple"})
          => (exitCode = 1 /\ CreatedFiles = {})
    /\ (Parsed /\ Value.kind \in {"list", "tuple"}) => ~RejectedAtTopLevel

\* C3 as amended: a top-level value that is not a list (a tuple included)
\* ends the run with exit code 1 and no output file, and a list is not
\* rejected by the top-level check.
C3_OnlyListAccepted ==
    /\ (Exited /\ Parsed /\ Value.kind # "list")
          => (exitCode = 1 /\ CreatedFiles = {} /\ RejectedAtTopLevel)
    /\ (Parsed /\ Value.kind = "list") => ~RejectedAtTopLevel

C3_Witness ==
    /\ Exited /\ Parsed /\ Value.kind = "tuple" /\ AllWellFormed(Value)
    /\ Len(Value.items) >= 1
    /\ exitCode = 1
    /\ LastLine(stdout).fmt = MsgNotList(input_file).fmt

----------------------------------------------------------------------------
(* C4 *)

NamesFirstMalformed ==
    /\ exitCode = 1
    /\ Len(stdout) = 1
    /\ stdout[1].fmt = MsgEntry(0, input_file, NoneValue).fmt
    /\ stdout[1].args[1] = FirstMalformed(Value) - 1
    /\ stdout[1].args[3] = Value.items[FirstMalformed(Value)]

\* C4 as stated: an input sequence (list or tuple) with a malformed element
\* ends with exit code 1 and one diagnostic, which names the 0-based index
\* of the first malformed element.
C4_SequenceFirstIndex ==
    (Exited /\ Parsed /\ Value.kind \in {"list", "tuple"} /\ HasMalformed(Value))
        => NamesFirstMalformed

\* C4 as amended: an input list with a malformed element ends with exit
\* code 1 and one diagnostic, which names the 0-based index of the first
\* malformed element, and that element.
C4_ListFirstIndex ==
    (Exited /\ Parsed /\ Value.kind = "list" /\ HasMalformed(Value))
        => NamesFirstMalformed

C4_Witness ==
    /\ Exited /\ Parsed /\ Value.kind = "list"
    /\ Len(Value.items) = 3
    /\ WellFormed(Value.items[1])
    /\ ~WellFormed(Value.items[2])
    /\ ~WellFormed(Value.items[3])
    /\ stdout[1].args[1] = 1

----------------------------------------------------------------------------
(* C5 *)

FailureKinds == {"file_not_found", "parse_error", "schema_error", "write_error"}

DiagnosticsOf(kind) ==
    CASE kind = "file_not_found" -> {MsgNotFound(input_file).fmt}
      [] kind = "parse_error"    -> {MsgParse(input_file).fmt}
      [] kind = "schema_error"   -> {MsgNotList(input_file).fmt,
                                     MsgEntry(0, input_file, NoneValue).fmt}
      [] kind = "write_error"    -> {MsgWrite(output_file).fmt}

\* The last line of the stream is a diagnostic of the run's failure kind and
\* of no other kind.
DiagnosticOn(stream) ==
    /\ Len(stream) >= 1
    /\ LastLine(stream).fmt \in DiagnosticsOf(failure)
    /\ \A k \in FailureKinds \ {failure} :
          LastLine(stream).fmt \notin DiagnosticsOf(k)

SuccessLinePrinted ==
    \/ \E i \in 1..Len(stdout) : stdout[i].fmt = MsgSuccess(output_file).fmt
    \/ \E i \in 1..Len(stderr) : stderr[i].fmt = MsgSuccess(output_file).fmt

----------------------------------------------------------------------------
(* C6 *)

Built == Did("build")

\* C6: the deck create_anki_deck returned holds one card per record of the
\* input, the i-th card made of the i-th record, the slot of each of the five
\* field names holding the record's field of the same position.
C6_DeckMirrorsRecords ==
    Built =>
        /\ Len(deck.notes) = Len(Value.items)
        /\ \A i \in 1..Len(deck.notes) :
              /\ Len(deck.notes[i].fields) = Len(FieldNames)
              /\ \A k \in 1..Len(FieldNames) :
                    deck.notes[i].fields[k] = Value.items[i].items[k]

C6_Witness ==
    /\ Built
    /\ Len(deck.notes) = 2
    /\ deck.notes[1].fields = <<"h2", "p2", "e2", "g2", "s2">>
    /\ deck.notes[2].fields = <<"h1", "p1", "e1", "g1", "s1">>

----------------------------------------------------------------------------
(* C7 *)

\* C7: without an output_file argument the archive goes to "deck.apkg", with
\* one it goes to exactly that path.
C7_DefaultIsDeckApkg ==
    LET target == IF Len(argv) >= 3 THEN argv[3] ELSE "deck.apkg" IN
    /\ pc # "main" => output_file = target
    /\ (Exited /\ exitCode = 0) => outfs[target].state = "complete"

----------------------------------------------------------------------------
(* C8 *)

OwnDiagnostics ==
    UNION { DiagnosticsOf(k) : k \in FailureKinds }

\* C8: every run that does not succeed ends with exit code 1 after a
\* diagnostic printed by one of the program's own handlers, and never
\* through an error nothing handles.
C8_EveryFailureHandled ==
    (Exited /\ exitCode # 0) =>
        /\ exitCode = 1
        /\ failure \in FailureKinds
        /\ Len(stdout) >= 1
        /\ LastLine(stdout).fmt \in OwnDiagnostics
        /\ stderr = <<>>

----------------------------------------------------------------------------
(* C9 *)

CheckSteps == {"isfile", "parse", "toplevel", "entry"}

Rank(step) ==
    CASE step = "isfile"   -> 1
      [] step = "parse"    -> 2
      [] step = "toplevel" -> 3
      [] step = "entry"    -> 4

IsCheck(step) == step \in CheckSteps

ChecksRun == SelectSeq(trace, IsCheck)

\* The earliest check the input fails, decided on the input alone.
EarliestFailing ==
    IF inputFile.status = "absent" THEN "isfile"
    ELSE IF inputFile.status # "text" THEN "none"
    ELSE IF ~inputFile.content.literal THEN "parse"
    ELSE IF Value.kind # "list" THEN "toplevel"
    ELSE IF HasMalformed(Value) THEN "entry"
    ELSE "none"

KindOfCheck(step) ==
    CASE step = "isfile"   -> "file_not_found"
      [] step = "parse"    -> "parse_error"
      [] step = "toplevel" -> "schema_error"
      [] step = "entry"    -> "schema_error"

\* C9: the checks run in the order existence, parse, top-level shape,
\* per-record shape, each of the first three once; no check after the earliest
\* failing one is evaluated; and the run ends there, reporting that kind.
C9_ChecksInOrder ==
    /\ \A i \in 1..Len(ChecksRun) :
          /\ i > 1 => Rank(ChecksRun[i - 1]) <= Rank(ChecksRun[i])
          /\ (i > 1 /\ ChecksRun[i] # "entry") => ChecksRun[i - 1] # ChecksRun[i]
          /\ Rank(ChecksRun[i]) <= IF i = 1 THEN 1 ELSE Rank(ChecksRun[i - 1]) + 1
    /\ EarliestFailing # "none" =>
          /\ \A i \in 1..Len(ChecksRun) :
                Rank(ChecksRun[i]) <= Rank(EarliestFailing)
          /\ EarliestFailing = "entry" =>
                Cardinality({i \in 1..Len(trace) : trace[i] = "entry"})
                    <= FirstMalformed(Value)
          /\ Exited =>
                /\ exitCode = 1
                /\ failure = KindOfCheck(EarliestFailing)
                /\ LastLine(trace) = EarliestFailing
                /\ Len(stdout) = 1

C9_Witness ==
    /\ Exited
    /\ inputFile.status = "text" /\ ~inputFile.content.literal
    /\ ChecksRun = <<"isfile", "parse">>
    /\ failure = "parse_error"

----------------------------------------------------------------------------
(* C10 *)

LoaderAccepts == ValidList

\* C10: create_anki_deck is called and the write attempted only in a run
\* whose input the loader accepted whole, after the loader returned; a deck
\* or an archive never holds fewer records than the input.
C10_BuildOnlyAfterAccept ==
    /\ (Did("build") \/ Did("write")) => (LoaderAccepts /\ Did("return"))
    /\ ~LoaderAccepts =>
          /\ deck = NoDeck
          /\ CreatedFiles = {}
    /\ Did("build") => Len(deck.notes) = Len(Value.items)
    /\ \A p \in OutPaths :
          outfs[p].state = "complete" => Len(outfs[p].notes) = Len(Value.items)

C10_Witness ==
    /\ Exited /\ Parsed /\ Value.kind = "list"
    /\ Len(Value.items) = 3
    /\ WellFormed(Value.items[1])
    /\ ~WellFormed(Value.items[2])
    /\ WellFormed(Value.items[3])
    /\ ~Did("build") /\ ~Did("write")
    /\ CreatedFiles = {}

====
